---- MODULE Spec2Model ----
(***************************************************************************)
(* Model of the CV / job-description matcher:                              *)
(*   app/matching/semantic_matcher.py   SemanticScorer                     *)
(*   app/parser/cv_structured_parser.py parse_date, extract_*              *)
(*   run.py                             result display                     *)
(*                                                                         *)
(* Numbers are fixed point.  A similarity is an integer number of          *)
(* thousandths (SimScale), a weight an integer number of 1e-5 (WScale), a  *)
(* raw score their product, i.e. a number of 1e-6 score points, and a      *)
(* rounded score a number of hundredths of a score point.                  *)
(* A section text is a sequence of one-character strings.                  *)
(***************************************************************************)
EXTENDS Integers, Sequences, FiniteSets, TLC

VARIABLES scorer, weights, cv, jd, sims, report, shown, missing,
          clock, parsed, nows, statics, doc, section, fields, experience_data, jobs

\* the scorer and one request to it
scoreVars == <<scorer, weights, cv, jd, sims, report, shown, missing>>

\* the wall clock, the last call of parse_date, and the timestamps this run
\* got for "Present"/"Now" (with the moment of the call) and for dated strings
dateVars == <<clock, parsed, nows, statics>>

\* a document, the last result of extract_by_keywords on it, the result of
\* extract_structured_fields on it, the result of extract_experience on it
\* and the jobs plot_experience_timeline draws for that result
parserVars == <<doc, section, fields, experience_data, jobs>>

vars == <<scoreVars, dateVars, parserVars>>

----------------------------------------------------------------------------
(* Generic helpers                                                         *)

Abs(n) == IF n < 0 THEN -n ELSE n

\* dict.get(key, default)
Get(d, key, default) == IF key \in DOMAIN d THEN d[key] ELSE default

Range(s) == {s[i] : i \in 1..Len(s)}

----------------------------------------------------------------------------
(* Fixed-point scales                                                      *)

SimScale == 1000
WScale == 100000
\* one hundredth of a score point, in raw score units (1e-6 score points)
CentUnit == (SimScale * WScale) \div 10000

\* round(x, 2): nearest hundredth, an exact half goes to the even neighbour
Round2(x) ==
    LET q == x \div CentUnit
        r == x - q * CentUnit
    IN  IF 2 * r < CentUnit THEN q
        ELSE IF 2 * r > CentUnit THEN q + 1
        ELSE IF q % 2 = 0 THEN q ELSE q + 1

----------------------------------------------------------------------------
(* Texts                                                                   *)

Whitespace == {" ", "\n", "\t"}

\* str.strip()
RECURSIVE LStrip(_)
LStrip(t) == IF t # <<>> /\ Head(t) \in Whitespace THEN LStrip(Tail(t)) ELSE t

RECURSIVE RStrip(_)
RStrip(t) ==
    IF t # <<>> /\ t[Len(t)] \in Whitespace
    THEN RStrip(SubSeq(t, 1, Len(t) - 1)) ELSE t

Strip(t) == RStrip(LStrip(t))

TxtEmpty == <<>>
TxtBlank == <<" ">>
TxtPythonSql == <<"p","y","t","h","o","n"," ","s","q","l">>
TxtPythonSqlAws == <<"p","y","t","h","o","n"," ","s","q","l"," ","a","w","s">>

----------------------------------------------------------------------------
(* SemanticScorer                                                          *)

SECTIONS == <<"skills", "experience", "education">>

SectionSet == Range(SECTIONS)

DefaultWeights ==
    [skills |-> 40000, experience |-> 30000, education |-> 15000,
     others |-> 15000]

\* sum(self.weights.values())
RECURSIVE SumValues(_)
SumValues(w) ==
    IF DOMAIN w = {} THEN 0
    ELSE LET k == CHOOSE x \in DOMAIN w : TRUE
         IN  w[k] + SumValues([x \in DOMAIN w \ {k} |-> w[x]])

\* np.isclose(a, b): |a - b| <= atol + rtol * |b|, atol = 1e-8, rtol = 1e-5;
\* both sides are counted in units of 1e-8
IsCloseAlways(a, b) == TRUE

IsClose(a, b) ==
    Abs(a - b) * (100000000 \div WScale) <= 1 + (1000 * Abs(b)) \div WScale

\* the check of __init__: TRUE when construction raises ValueError
InitRaises(w) == ~ IsClose(SumValues(w), WScale)

\* embed(): the encoder is applied to the stripped text ("" for a falsy
\* text); the vector is a function of that string, which stands for it here
Embed(text) == IF text # <<>> THEN Strip(text) ELSE <<>>

\* get_similarity(): cosine of two normalised vectors.  The encoder gives
\* every string, the empty one included, a vector of length 1, and the cosine
\* of such a vector with itself is 1; for different vectors it is the value
\* r that the encoder determines, anywhere in [-1, 1].
GetSimilarityZeroBaseline(e1, e2, r) ==
    IF e1 = <<>> \/ e2 = <<>> THEN 0 ELSE IF e1 = e2 THEN SimScale ELSE r

GetSimilarity(e1, e2, r) == IF e1 = e2 THEN SimScale ELSE r

\* f"{sec}_similarity"
SimKey(sec) ==
    CASE sec = "skills" -> "skills_similarity"
      [] sec = "experience" -> "experience_similarity"
      [] sec = "education" -> "education_similarity"

\* str.capitalize() on the values best_match_section can take
Capitalize(s) ==
    CASE s = "skills" -> "Skills"
      [] s = "experience" -> "Experience"
      [] s = "education" -> "Education"
      [] s = "" -> ""

\* sim * 100 * self.weights.get(sec, 0)
WeightedScoreUnweighted(sim, sec, w) == sim * WScale

WeightedScore(sim, sec, w) == sim * Get(w, sec, 0)

\* the state of the loop of score_cv before any section is scored
LoopStart ==
    [total_score |-> 0, best_match_score |-> -SimScale,
     best_match_section |-> "", section_scores |-> <<>>]

\* the loop "for sec in self.SECTIONS" of score_cv, from section i on
RECURSIVE ScoreLoop(_, _, _, _)
ScoreLoop(i, acc, s, w) ==
    IF i > Len(SECTIONS) THEN acc
    ELSE LET sec == SECTIONS[i]
             sim == s[sec]
             better == sim > acc.best_match_score
         IN  ScoreLoop(i + 1,
                 [total_score |-> acc.total_score + WeightedScore(sim, sec, w),
                  best_match_score |->
                      IF better THEN sim ELSE acc.best_match_score,
                  best_match_section |->
                      IF better THEN sec ELSE acc.best_match_section,
                  section_scores |->
                      Append(acc.section_scores, <<SimKey(sec), sim>>)],
                 s, w)

\* the dict returned by score_cv.  best_match_score * 100 is, in raw score
\* units, the similarity times WScale; both scores come out in hundredths.
ScoreReport(s, w) ==
    LET acc == ScoreLoop(1, LoopStart, s, w)
        per == [k \in {p[1] : p \in Range(acc.section_scores)} |->
                   (CHOOSE p \in Range(acc.section_scores) : p[1] = k)[2]]
    IN  per @@
        ("best_match_score" :> Round2(acc.best_match_score * WScale)) @@
        ("best_match_section" :> Capitalize(acc.best_match_section)) @@
        ("total_score" :> Round2(acc.total_score))

----------------------------------------------------------------------------
(* find_missing_keywords                                                   *)

TxtSqlTwice == <<"\t","s","q","l",",",",","S","q","l","\n","A","W","S"," ">>

\* the characters of the texts, in code-point order
CharOrder ==
    <<"\t", "\n", " ", ",", "A", "S", "W", "a", "h", "l", "n", "o", "p", "q",
      "s", "t", "w", "y">>

Code(c) == CHOOSE i \in 1..Len(CharOrder) : CharOrder[i] = c

\* str.lower(), character by character
LowerChar(c) ==
    CASE c = "A" -> "a"
      [] c = "S" -> "s"
      [] c = "W" -> "w"
      [] OTHER -> c

Lower(t) == [i \in 1..Len(t) |-> LowerChar(t[i])]

\* str.replace(',', ' ')
ReplaceComma(t) == [i \in 1..Len(t) |-> IF t[i] = "," THEN " " ELSE t[i]]

\* str.split(): the maximal runs of characters that are not whitespace, left
\* to right; cur is the run being read
RECURSIVE SplitFrom(_, _, _)
SplitFrom(t, cur, acc) ==
    IF t = <<>> THEN (IF cur = <<>> THEN acc ELSE Append(acc, cur))
    ELSE IF Head(t) \in Whitespace
         THEN SplitFrom(Tail(t), <<>>,
                        IF cur = <<>> THEN acc ELSE Append(acc, cur))
         ELSE SplitFrom(Tail(t), Append(cur, Head(t)), acc)

Split(t) == SplitFrom(t, <<>>, <<>>)

\* set(text.lower().replace(',', ' ').split())
Words(t) == Range(Split(ReplaceComma(Lower(t))))

\* the order of str: a < b
RECURSIVE StrLess(_, _)
StrLess(a, b) ==
    IF b = <<>> THEN FALSE
    ELSE IF a = <<>> THEN TRUE
    ELSE IF Code(Head(a)) < Code(Head(b)) THEN TRUE
    ELSE IF Code(Head(a)) > Code(Head(b)) THEN FALSE
    ELSE StrLess(Tail(a), Tail(b))

\* sorted(S) of a set of strings
RECURSIVE Sorted(_)
Sorted(S) ==
    IF S = {} THEN <<>>
    ELSE LET m == CHOOSE x \in S : \A y \in S \ {x} : StrLess(x, y)
         IN  <<m>> \o Sorted(S \ {m})

\* jd_words - cv_words of one section
SectionMissingSwapped(cvText, jdText) == Words(cvText) \ Words(jdText)

SectionMissing(cvText, jdText) == Words(jdText) \ Words(cvText)

\* the loop "for sec in self.SECTIONS" of find_missing_keywords
RECURSIVE MissingLoop(_, _, _, _)
MissingLoop(i, acc, c, j) ==
    IF i > Len(SECTIONS) THEN acc
    ELSE MissingLoop(i + 1,
             acc \cup SectionMissing(Get(c, SECTIONS[i], <<>>),
                                     Get(j, SECTIONS[i], <<>>)),
             c, j)

FindMissing(c, j) == Sorted(MissingLoop(1, {}, c, j))

----------------------------------------------------------------------------
(* Dates.  A date string is a sequence of tokens: a number with its digit  *)
(* count, a separator character, or a word.  A timestamp is a number of    *)
(* ticks, TicksPerDay to the day, counted from day 0 of datetime's ordinal *)
(* calendar; a parsed date is the first tick of its day.                   *)

TicksPerDay == 2

Num(n, w) == [k |-> "num", n |-> n, w |-> w, s |-> ""]
Sep(c) == [k |-> "sep", n |-> 0, w |-> 1, s |-> c]
Word(s) == [k |-> "word", n |-> 0, w |-> 0, s |-> s]

\* Supported date formats
date_formats ==
    << <<"%Y", "-", "%m", "-", "%d">>, <<"%Y", "/", "%m", "/", "%d">>,
       <<"%Y", "-", "%m">>, <<"%Y", "/", "%m">>,
       <<"%d", "-", "%m", "-", "%Y">>, <<"%d", "/", "%m", "/", "%Y">>,
       <<"%b", " ", "%Y">>, <<"%B", " ", "%Y">> >>

\* str.lower() of the words that occur in date strings
LowerWord(s) ==
    CASE s \in {"Present", "PRESENT", "present"} -> "present"
      [] s \in {"Now", "NOW", "now"} -> "now"
      [] s \in {"Jan", "JAN", "jan"} -> "jan"
      [] s \in {"January", "january"} -> "january"
      [] s \in {"May", "MAY", "may"} -> "may"
      [] s \in {"Sept", "sept"} -> "sept"
      [] OTHER -> s

MonthAbbr ==
    <<"jan", "feb", "mar", "apr", "may", "jun", "jul", "aug", "sep", "oct",
      "nov", "dec">>

MonthFull ==
    <<"january", "february", "march", "april", "may", "june", "july",
      "august", "september", "october", "november", "december">>

IsLeap(y) == (y % 4 = 0) /\ ((y % 100 # 0) \/ (y % 400 = 0))

DaysInMonth(y, m) ==
    IF m = 2 THEN (IF IsLeap(y) THEN 29 ELSE 28)
    ELSE IF m \in {4, 6, 9, 11} THEN 30 ELSE 31

RECURSIVE DaysBeforeMonth(_, _)
DaysBeforeMonth(y, m) ==
    IF m = 1 THEN 0 ELSE DaysBeforeMonth(y, m - 1) + DaysInMonth(y, m - 1)

\* datetime(y, m, d).toordinal()
Ordinal(y, m, d) ==
    LET p == y - 1
    IN  p * 365 + (p \div 4) - (p \div 100) + (p \div 400)
        + DaysBeforeMonth(y, m) + d

\* datetime(y, m, d), midnight
Midnight(y, m, d) == Ordinal(y, m, d) * TicksPerDay

ValueError == [ok |-> FALSE, ts |-> 0]

\* one directive or literal of a format against one token
Matches(tok, dir) ==
    CASE dir = "%Y" -> tok.k = "num" /\ tok.w = 4
      [] dir = "%m" -> tok.k = "num" /\ tok.w \in {1, 2} /\ tok.n \in 1..12
      [] dir = "%d" -> tok.k = "num" /\ tok.w \in {1, 2} /\ tok.n \in 1..31
      [] dir = "%b" -> tok.k = "word" /\ LowerWord(tok.s) \in Range(MonthAbbr)
      [] dir = "%B" -> tok.k = "word" /\ LowerWord(tok.s) \in Range(MonthFull)
      [] OTHER -> tok.k = "sep" /\ tok.s = dir

IndexOf(seq, x) == CHOOSE i \in 1..Len(seq) : seq[i] = x

\* datetime.strptime(s, fmt): ValueError unless s has the shape of fmt and
\* names a date of the calendar; a missing day is 1
Strptime(s, fmt) ==
    IF Len(s) # Len(fmt) \/ \E i \in 1..Len(fmt) : ~ Matches(s[i], fmt[i])
    THEN ValueError
    ELSE LET y == s[IndexOf(fmt, "%Y")].n
             m == IF "%m" \in Range(fmt) THEN s[IndexOf(fmt, "%m")].n
                  ELSE IF "%b" \in Range(fmt)
                       THEN IndexOf(MonthAbbr, LowerWord(s[IndexOf(fmt, "%b")].s))
                       ELSE IndexOf(MonthFull, LowerWord(s[IndexOf(fmt, "%B")].s))
             d == IF "%d" \in Range(fmt) THEN s[IndexOf(fmt, "%d")].n ELSE 1
         IN  IF y < 1 \/ d > DaysInMonth(y, m) THEN ValueError
             ELSE [ok |-> TRUE, ts |-> Midnight(y, m, d)]

\* the loop "for fmt in date_formats" of parse_date, from format i on
RECURSIVE TryFormats(_, _)
TryFormats(s, i) ==
    IF i > Len(date_formats) THEN ValueError
    ELSE LET r == Strptime(s, date_formats[i])
         IN  IF r.ok THEN r ELSE TryFormats(s, i + 1)

\* str.strip() of a date string
RECURSIVE StripTokens(_)
StripTokens(s) ==
    IF s # <<>> /\ Head(s).k = "sep" /\ Head(s).s \in Whitespace
    THEN StripTokens(Tail(s))
    ELSE IF s # <<>> /\ s[Len(s)].k = "sep" /\ s[Len(s)].s \in Whitespace
         THEN StripTokens(SubSeq(s, 1, Len(s) - 1))
         ELSE s

\* s.lower() in ('present', 'now')
IsPresent(s) ==
    Len(s) = 1 /\ s[1].k = "word" /\ LowerWord(s[1].s) \in {"present", "now"}

\* parse_date(date_str) called when datetime.now() is now
ParseDateCaseSensitive(date_str, now) ==
    LET s == StripTokens(date_str)
    IN  IF Len(s) = 1 /\ s[1].k = "word" /\ s[1].s \in {"present", "now"}
        THEN [ok |-> TRUE, ts |-> now]
        ELSE TryFormats(s, 1)

ParseDate(date_str, now) ==
    LET s == StripTokens(date_str)
    IN  IF IsPresent(s) THEN [ok |-> TRUE, ts |-> now] ELSE TryFormats(s, 1)

----------------------------------------------------------------------------
(* Documents.  A document is a sequence of lexemes: an occurrence of a     *)
(* section keyword as written, a word, a whitespace character, a comma, a  *)
(* contact item the patterns of extract_contact_info find, or a stretch    *)
(* the date-range pattern of extract_experience matches.                   *)

Lex(k, v) == [k |-> k, v |-> v]

\* the two groups (?P<start>...) and (?P<end>...) of a date-range match
RangeStart(v) ==
    CASE v = "Jan 2019 - Present" -> <<Word("Jan"), Sep(" "), Num(2019, 4)>>
      [] v = "Sept. 2019 to 2020-05" ->
             <<Word("Sept"), Sep("."), Sep(" "), Num(2019, 4)>>
      [] v = "2021/03 - 2020/01" -> <<Num(2021, 4), Sep("/"), Num(3, 2)>>
      [] v = "2020/01 - 31/02/2021" -> <<Num(2020, 4), Sep("/"), Num(1, 2)>>

RangeEnd(v) ==
    CASE v = "Jan 2019 - Present" -> <<Word("Present")>>
      [] v = "Sept. 2019 to 2020-05" -> <<Num(2020, 4), Sep("-"), Num(5, 2)>>
      [] v = "2021/03 - 2020/01" -> <<Num(2020, 4), Sep("/"), Num(1, 2)>>
      [] v = "2020/01 - 31/02/2021" ->
             <<Num(31, 2), Sep("/"), Num(2, 2), Sep("/"), Num(2021, 4)>>

\* str.lower() of a section keyword as written
LowerKeyword(v) ==
    CASE v \in {"Education", "EDUCATION", "education"} -> "education"
      [] v \in {"Experience", "EXPERIENCE", "experience"} -> "experience"
      [] v \in {"Skills", "SKILLS", "skills"} -> "skills"
      [] v \in {"Projects", "PROJECTS", "projects"} -> "projects"

\* str.strip() of a stretch of a document
RECURSIVE StripLex(_)
StripLex(t) ==
    IF t # <<>> /\ Head(t).k = "ws" THEN StripLex(Tail(t))
    ELSE IF t # <<>> /\ t[Len(t)].k = "ws"
         THEN StripLex(SubSeq(t, 1, Len(t) - 1))
         ELSE t

\* re.search(pattern, text) for a pattern that matches lexemes of kind k:
\* the index of the first one, 0 for no match
FirstOfKind(k, text) ==
    IF \E i \in 1..Len(text) : text[i].k = k
    THEN CHOOSE i \in 1..Len(text) :
             /\ text[i].k = k
             /\ \A h \in 1..(i - 1) : text[h].k # k
    ELSE 0

\* extract_contact_info(text)
ContactKeys == {"email", "phone", "github", "linkedin"}

ExtractContactInfo(text) ==
    [key \in {k \in ContactKeys : FirstOfKind(k, text) # 0} |->
        text[FirstOfKind(key, text)].v]

\* re.search(keyword, text, re.IGNORECASE): the index of the first occurrence
\* of the keyword, 0 for no match
SearchKeyword(keyword, text) ==
    LET hit(i) == text[i].k = "kw" /\ LowerKeyword(text[i].v) = LowerKeyword(keyword)
    IN  IF \E i \in 1..Len(text) : hit(i)
        THEN CHOOSE i \in 1..Len(text) : hit(i) /\ \A h \in 1..(i - 1) : ~ hit(h)
        ELSE 0

sections == <<"Education", "Experience", "Skills", "Projects">>

\* the loop "for sec in sections" of extract_by_keywords, from section i on:
\* the value of end, the number of lexemes before the cut
RECURSIVE EndOfSection(_, _, _, _)
EndOfSection(i, text, keyword, start) ==
    IF i > Len(sections) THEN Len(text)
    ELSE IF LowerKeyword(sections[i]) = LowerKeyword(keyword)
         THEN EndOfSection(i + 1, text, keyword, start)
         ELSE LET m2 == SearchKeyword(sections[i],
                                      SubSeq(text, start + 1, Len(text)))
              IN  IF m2 # 0 THEN start + (m2 - 1)
                  ELSE EndOfSection(i + 1, text, keyword, start)

\* extract_by_keywords(text, keyword); start and end count lexemes the way
\* m.end() and m2.start() count characters
ExtractByKeywords(text, keyword) ==
    LET m == SearchKeyword(keyword, text)
    IN  IF m = 0 THEN <<>>
        ELSE StripLex(SubSeq(text, m + 1, EndOfSection(1, text, keyword, m)))

\* text.splitlines()
RECURSIVE SplitLines(_, _, _)
SplitLines(t, cur, acc) ==
    IF t = <<>> THEN (IF cur = <<>> THEN acc ELSE Append(acc, cur))
    ELSE IF Head(t) = Lex("ws", "\n")
         THEN SplitLines(Tail(t), <<>>, Append(acc, cur))
         ELSE SplitLines(Tail(t), Append(cur, Head(t)), acc)

NoiseWords == {"During", "Business", "Website", "Key", "As"}

LowerCaseWords == {"at", "and", "freelance"}

\* re.split(r'During|Business|Website|Key|As', label_part)[0].strip(' -:')
CutAtNoise(label) ==
    LET noisy(i) == label[i].k = "word" /\ label[i].v \in NoiseWords
    IN  IF \E i \in 1..Len(label) : noisy(i)
        THEN StripLex(SubSeq(label, 1,
                 (CHOOSE i \in 1..Len(label) :
                      noisy(i) /\ \A h \in 1..(i - 1) : ~ noisy(h)) - 1))
        ELSE StripLex(label)

\* re.sub(r'^[a-z]+(?:\s+[a-z]+)*,\s*', '', label): lower-case words up to a
\* comma, and the whitespace after it, are dropped from the front
DropLowerPrefix(label) ==
    LET lowerRun(c) ==
            /\ c > 1
            /\ label[c] = Lex("punct", ",")
            /\ label[1].k = "word"
            /\ label[c - 1].k = "word"
            /\ \A i \in 1..(c - 1) :
                   \/ label[i].k = "word" /\ label[i].v \in LowerCaseWords
                   \/ label[i].k = "ws" /\ label[i].v # "\n"
                          /\ i > 1 /\ i < c - 1
        RECURSIVE lstrip(_)
        lstrip(t) == IF t # <<>> /\ Head(t).k = "ws" THEN lstrip(Tail(t)) ELSE t
    IN  IF \E c \in 1..Len(label) : lowerRun(c)
        THEN lstrip(SubSeq(label, (CHOOSE c \in 1..Len(label) : lowerRun(c)) + 1,
                           Len(label)))
        ELSE label

\* re.match(r'(?P<role>.+?)\s+at\s+(?P<company>.+)', label, re.IGNORECASE)
\* and the two branches after it
RoleCompany(label) ==
    LET isAt(i) ==
            /\ i > 2 /\ i + 2 <= Len(label)
            /\ label[i].k = "word" /\ label[i].v \in {"at", "At", "AT", "aT"}
            /\ label[i - 1].k = "ws"
            /\ label[i + 1].k = "ws"
    IN  IF \E i \in 1..Len(label) : isAt(i)
        THEN LET a == CHOOSE i \in 1..Len(label) :
                          isAt(i) /\ \A h \in 1..(i - 1) : ~ isAt(h)
             IN  [role |-> StripLex(SubSeq(label, 1, a - 1)),
                  company |-> StripLex(SubSeq(label, a + 1, Len(label)))]
        ELSE [role |-> label, company |-> <<>>]

\* "except ValueError: continue": the match is skipped and the scan goes on
OnValueErrorRaise(acc) == [acc EXCEPT !.raised = TRUE]

OnValueError(acc) == acc

\* (end_date - start_date).days / 365: the whole days of the difference,
\* rounded down as timedelta does, over 365
DurationOfInterval(start, end) ==
    [days |-> Abs(end - start) \div TicksPerDay, per |-> 365]

Duration(start, end) == [days |-> (end - start) \div TicksPerDay, per |-> 365]

\* the body of "for m in date_pattern.finditer(seg)" for the match at lexeme
\* i of seg; acc is [raised, entries]
MatchStep(seg, i, acc, now) ==
    LET start_date == ParseDate(RangeStart(seg[i].v), now)
        end_date == ParseDate(RangeEnd(seg[i].v), now)
    IN  IF ~ start_date.ok \/ ~ end_date.ok THEN OnValueError(acc)
        ELSE LET after == StripLex(SubSeq(seg, i + 1, Len(seg)))
                 label_part == IF after # <<>> THEN after
                               ELSE StripLex(SubSeq(seg, 1, i - 1))
                 rc == RoleCompany(DropLowerPrefix(CutAtNoise(label_part)))
             IN  [acc EXCEPT !.entries = Append(@,
                     [role |-> rc.role,
                      company |-> rc.company,
                      start_date |-> start_date.ts,
                      end_date |-> end_date.ts,
                      duration |-> Duration(start_date.ts, end_date.ts)])]

\* the matches of one line, left to right from lexeme i on
LineLoopFirstMatch(seg, i, acc, now) ==
    IF \E h \in i..Len(seg) : seg[h].k = "range"
    THEN MatchStep(seg,
                   CHOOSE h \in i..Len(seg) :
                       seg[h].k = "range" /\ \A g \in i..(h - 1) : seg[g].k # "range",
                   acc, now)
    ELSE acc

RECURSIVE LineLoop(_, _, _, _)
LineLoop(seg, i, acc, now) ==
    IF i > Len(seg) \/ acc.raised THEN acc
    ELSE LineLoop(seg, i + 1,
                  IF seg[i].k = "range" THEN MatchStep(seg, i, acc, now) ELSE acc,
                  now)

\* the loop "for line in text.splitlines()" of extract_experience
RECURSIVE LinesLoop(_, _, _, _)
LinesLoop(lines, n, acc, now) ==
    IF n > Len(lines) \/ acc.raised THEN acc
    ELSE LET seg == StripLex(lines[n])
         IN  LinesLoop(lines, n + 1,
                       IF seg = <<>> THEN acc ELSE LineLoop(seg, 1, acc, now),
                       now)

\* extract_experience(text) called when datetime.now() is now: the entries,
\* or raised when an exception leaves the function
ExtractExperience(text, now) ==
    IF text = <<>> THEN [raised |-> FALSE, entries |-> <<>>]
    ELSE LinesLoop(SplitLines(text, <<>>, <<>>), 1,
                   [raised |-> FALSE, entries |-> <<>>], now)

\* extract_structured_fields(text)
ExtractStructuredFields(text, now) ==
    LET experience == ExtractByKeywords(text, "Experience")
        details == ExtractExperience(experience, now)
    IN  [returned |-> TRUE,
         raised |-> details.raised,
         value |-> IF details.raised THEN <<>>
                   ELSE [contact |-> ExtractContactInfo(text),
                         education |-> ExtractByKeywords(text, "Education"),
                         experience |-> experience,
                         skills |-> ExtractByKeywords(text, "Skills"),
                         projects |-> ExtractByKeywords(text, "Projects"),
                         experience_details |-> details.entries]]

----------------------------------------------------------------------------
(* Inputs of the scorer                                                    *)

\* weight tables the constructor is checked with: the one of the source, two
\* keys of one half each, one half plus 0.50001, three keys summing to 0.85
\* and four keys summing to 1.3
HalfWeights == [skills |-> 50000, experience |-> 50000]
NearWeights == [skills |-> 50000, experience |-> 50001]
ThreeWeights == [skills |-> 40000, experience |-> 30000, education |-> 15000]
OverWeights ==
    [skills |-> 50000, experience |-> 50000, education |-> 15000,
     others |-> 15000]

WeightTables ==
    {DefaultWeights, HalfWeights, NearWeights, ThreeWeights, OverWeights}

\* cosines the encoder may produce for two different texts
SimGrid == {-SimScale, -2, 0, 334, SimScale}

ScoreTexts == {TxtEmpty, TxtBlank, TxtPythonSql}

ScoreRecords == [SectionSet -> ScoreTexts]

NoWeights == [none |-> TRUE]
NoRecord == [none |-> TRUE]
NoSims == [none |-> TRUE]
NoReport == [none |-> TRUE]
NotShown == [none |-> TRUE]
NotComputed == [returned |-> FALSE, value |-> <<>>]

\* datetime.now() when the run starts: midday of 6 November 2026
ClockStart == Midnight(2026, 11, 6) + 1

NotParsed == [arg |-> <<>>, at |-> 0, res |-> ValueError]

NoSection == [returned |-> FALSE, keyword |-> "", value |-> <<>>]
NoFields == [returned |-> FALSE, raised |-> FALSE, value |-> <<>>]
NoDetails == [returned |-> FALSE, raised |-> FALSE, entries |-> <<>>]
NoJobs == [returned |-> FALSE, figure |-> FALSE, value |-> <<>>]

----------------------------------------------------------------------------
(* Operations of the scorer                                                *)

Init ==
    /\ scorer = "none"
    /\ weights = NoWeights
    /\ cv = NoRecord
    /\ jd = NoRecord
    /\ sims = NoSims
    /\ report = NoReport
    /\ shown = NotShown
    /\ missing = NotComputed
    /\ clock = ClockStart
    /\ parsed = NotParsed
    /\ nows = {}
    /\ statics = {}
    /\ doc = <<>>
    /\ section = NoSection
    /\ fields = NoFields
    /\ experience_data = NoDetails
    /\ jobs = NoJobs

\* SemanticScorer.__init__ with the weight table w, run once by each run of
\* the script (run.py, "scorer = SemanticScorer()")
Construct(w) ==
    /\ scorer = "none"
    /\ weights' = w
    /\ scorer' = IF InitRaises(w) THEN "failed" ELSE "ready"
    /\ UNCHANGED <<cv, jd, sims, report, shown, missing, dateVars, parserVars>>

\* SemanticScorer.score_cv(c, j), called once by a run of the script; raw[sec]
\* is the cosine the encoder gives section sec when the two embedded texts
\* differ
ScoreCv ==
    /\ scorer = "ready"
    /\ report = NoReport
    /\ \E c \in ScoreRecords, j \in ScoreRecords, raw \in [SectionSet -> SimGrid] :
          LET s == [sec \in SectionSet |->
                       GetSimilarity(Embed(Get(c, sec, <<>>)),
                                     Embed(Get(j, sec, <<>>)), raw[sec])]
          IN  /\ sims' = s
              /\ report' = ScoreReport(s, weights)
              /\ cv' = c
              /\ jd' = j
    /\ UNCHANGED <<scorer, weights, shown, missing, dateVars, parserVars>>

\* run.py: the two "Best Match" lines written for a match_result
Display ==
    /\ report # NoReport
    /\ shown = NotShown
    /\ shown' = [sentence |-> Get(report, "best_match_sentence", "Not available"),
                 score |-> Get(report, "best_match_score", 0)]
    /\ UNCHANGED <<scorer, weights, cv, jd, sims, report, missing, dateVars, parserVars>>

\* the script ends (after the display, or with the error of the
\* constructor) and is run again from the top
Rerun ==
    /\ scorer = "failed" \/ shown # NotShown
    /\ scorer' = "none"
    /\ weights' = NoWeights
    /\ cv' = NoRecord
    /\ jd' = NoRecord
    /\ sims' = NoSims
    /\ report' = NoReport
    /\ shown' = NotShown
    /\ UNCHANGED <<missing, dateVars, parserVars>>

Next ==
    \/ \E w \in WeightTables : Construct(w)
    \/ ScoreCv
    \/ Display
    \/ Rerun

Spec == Init /\ [][Next]_vars

----------------------------------------------------------------------------
(* Properties of the scorer                                                *)

Scored == report # NoReport

AllEmpty(rec) == \A sec \in SectionSet : rec[sec] = <<>>

\* the sum of the three scored contributions, written out section by section
ThreeSectionSum ==
    sims["skills"] * Get(weights, "skills", 0)
    + sims["experience"] * Get(weights, "experience", 0)
    + sims["education"] * Get(weights, "education", 0)

MaxSim ==
    CHOOSE m \in {sims[sec] : sec \in SectionSet} :
        \A sec \in SectionSet : sims[sec] <= m

\* the first section, in the order of SECTIONS, whose similarity is MaxSim
EarliestMax ==
    SECTIONS[CHOOSE i \in 1..Len(SECTIONS) :
                 /\ sims[SECTIONS[i]] = MaxSim
                 /\ \A k \in 1..(i - 1) : sims[SECTIONS[k]] # MaxSim]

\* C1: total_score is the rounded sum, over exactly skills, experience and
\* education, of similarity x 100 x weight; the weight of "others" adds
\* nothing, so identical records under the default weights score 85, not 100.
C1_TotalIsThreeSectionSum ==
    Scored =>
        /\ report["total_score"] = Round2(ThreeSectionSum)
        /\ (cv = jd /\ weights = DefaultWeights) =>
               /\ \A sec \in SectionSet : sims[sec] = SimScale
               /\ report["total_score"] = 8500

C1_Witness ==
    /\ Scored
    /\ cv = jd
    /\ cv["skills"] = TxtPythonSql
    /\ weights = DefaultWeights
    /\ report["total_score"] = 8500

\* C2: whatever the three similarities in [-1, 1], best_match_score and
\* total_score of the report are both within [0, 100].
C2_ScoresWithinZeroToHundred ==
    Scored =>
        /\ report["best_match_score"] >= 0
        /\ report["best_match_score"] <= 10000
        /\ report["total_score"] >= 0
        /\ report["total_score"] <= 10000

\* C3: best_match_section names the earliest section of skills, experience,
\* education whose similarity is the maximum of the three, best_match_score is
\* that maximum times 100, and the section is one of the three scored ones.
C3_BestIsEarliestMaximum ==
    Scored =>
        /\ report["best_match_section"] = Capitalize(EarliestMax)
        /\ report["best_match_score"] = MaxSim * 10
        /\ report["best_match_section"] \in {"Skills", "Experience", "Education"}

C7_EmptyScoresZero ==
    (Scored /\ AllEmpty(cv) /\ AllEmpty(jd)) => report["total_score"] = 0

\* C7 (amended): scoring an all-empty CV against an all-empty JD gives a
\* report in which every section's similarity is 1 (the empty text is
\* compared with itself), best_match_score is 100 and total_score is the
\* full three-section score, 85 under the default weights.
C7_EmptyScoresAsIdentical ==
    (Scored /\ AllEmpty(cv) /\ AllEmpty(jd)) =>
        /\ \A sec \in SectionSet : report[SimKey(sec)] = SimScale
        /\ report["best_match_score"] = 10000
        /\ report["total_score"] =
               Round2(SimScale * (Get(weights, "skills", 0)
                                  + Get(weights, "experience", 0)
                                  + Get(weights, "education", 0)))
        /\ weights = DefaultWeights => report["total_score"] = 8500

C7_Witness ==
    /\ Scored
    /\ AllEmpty(cv)
    /\ AllEmpty(jd)
    /\ weights = DefaultWeights
    /\ report["total_score"] = 8500

\* C10: the result of scoring has a best_match_sentence field next to
\* best_match_score, so the "Best Match Sentence" line shows a value of the
\* scoring and not the default "Not available".
C10_ReportHasBestMatchSentence ==
    /\ Scored =>
          /\ "best_match_sentence" \in DOMAIN report
          /\ "best_match_score" \in DOMAIN report
    /\ shown # NotShown => shown.sentence # "Not available"

----------------------------------------------------------------------------
(* find_missing_keywords applied to pairs of records                       *)

KeywordTexts == {TxtEmpty, TxtPythonSql, TxtPythonSqlAws, TxtSqlTwice}

KeywordRecords == [SectionSet -> KeywordTexts]

\* a constructed scorer and the two records of a request
InitKeywords ==
    /\ scorer = "ready"
    /\ weights = DefaultWeights
    /\ cv \in KeywordRecords
    /\ jd \in KeywordRecords
    /\ sims = NoSims
    /\ report = NoReport
    /\ shown = NotShown
    /\ missing = NotComputed
    /\ clock = ClockStart
    /\ parsed = NotParsed
    /\ nows = {}
    /\ statics = {}
    /\ doc = <<>>
    /\ section = NoSection
    /\ fields = NoFields
    /\ experience_data = NoDetails
    /\ jobs = NoJobs

\* SemanticScorer.find_missing_keywords(cv, jd)
FindMissingKeywords ==
    /\ scorer = "ready"
    /\ ~ missing.returned
    /\ missing' = [returned |-> TRUE, value |-> FindMissing(cv, jd)]
    /\ UNCHANGED <<scorer, weights, cv, jd, sims, report, shown, dateVars, parserVars>>

NextKeywords == FindMissingKeywords

SpecKeywords == InitKeywords /\ [][NextKeywords]_vars

IsSeparator(c) == c \in Whitespace \cup {","}

\* w is one of the lowercased tokens of text: a maximal run of characters
\* that are neither whitespace nor commas, in lower case
IsToken(w, text) ==
    \E a \in 1..Len(text), b \in 1..Len(text) :
        /\ a <= b
        /\ \A k \in a..b : ~ IsSeparator(text[k])
        /\ a = 1 \/ IsSeparator(text[a - 1])
        /\ b = Len(text) \/ IsSeparator(text[b + 1])
        /\ w = [k \in 1..(b - a + 1) |-> LowerChar(text[a + k - 1])]

\* every lowercased piece of a text
Pieces(text) ==
    {[k \in 1..(b - a + 1) |-> LowerChar(text[a + k - 1])] :
        a \in 1..Len(text), b \in 1..Len(text)}

WordPython == <<"p","y","t","h","o","n">>
WordSql == <<"s","q","l">>
WordAws == <<"a","w","s">>

\* C5: find_missing_keywords returns the ascending, duplicate-free sequence of
\* exactly the lowercase tokens that some section of the JD has and the same
\* section of the CV has not; CV skills "python sql" against JD skills
\* "python sql aws" gives "aws" and neither "python" nor "sql".
C5_MissingKeywordsSortedDifference ==
    missing.returned =>
        LET m == missing.value
        IN  /\ \A i \in 1..(Len(m) - 1) : StrLess(m[i], m[i + 1])
            /\ \A sec \in SectionSet : \A w \in Pieces(jd[sec]) :
                   (IsToken(w, jd[sec]) /\ ~ IsToken(w, cv[sec]))
                       => w \in Range(m)
            /\ \A w \in Range(m) : \E sec \in SectionSet :
                   IsToken(w, jd[sec]) /\ ~ IsToken(w, cv[sec])
            /\ (/\ cv["skills"] = TxtPythonSql
                /\ jd["skills"] = TxtPythonSqlAws
                /\ jd["experience"] = cv["experience"]
                /\ jd["education"] = cv["education"])
                   => m = <<WordAws>>

C5_Witness ==
    /\ missing.returned
    /\ cv["skills"] = TxtPythonSql
    /\ jd["skills"] = TxtPythonSqlAws
    /\ cv["experience"] = TxtSqlTwice
    /\ jd["experience"] = TxtSqlTwice
    /\ jd["education"] = TxtEmpty
    /\ missing.value = <<WordAws>>

----------------------------------------------------------------------------
(* parse_date applied to date strings while the clock runs                 *)

\* how many ticks the clock advances in a run
MaxTicks == 2

DsYearMonth == <<Num(2020, 4), Sep("-"), Num(5, 2)>>
DsMonthYear == <<Word("May"), Sep(" "), Num(2020, 4)>>
DsFuture == <<Num(2099, 4), Sep("/"), Num(1, 2), Sep("/"), Num(15, 2)>>
DsTomorrow == <<Num(7, 1), Sep("-"), Num(11, 2), Sep("-"), Num(2026, 4)>>
DsBadDay == <<Num(31, 2), Sep("/"), Num(2, 2), Sep("/"), Num(2021, 4)>>
DsSept == <<Word("Sept"), Sep(" "), Num(2020, 4)>>
DsPresent == <<Word("Present")>>
DsNowUpper == <<Sep(" "), Word("NOW"), Sep(" ")>>
DsNow == <<Word("now")>>

PresentStrings == {DsPresent, DsNowUpper, DsNow}

DateStrings ==
    {DsYearMonth, DsMonthYear, DsFuture, DsTomorrow, DsBadDay, DsSept}
    \cup PresentStrings

InitDate ==
    /\ scorer = "none"
    /\ weights = NoWeights
    /\ cv = NoRecord
    /\ jd = NoRecord
    /\ sims = NoSims
    /\ report = NoReport
    /\ shown = NotShown
    /\ missing = NotComputed
    /\ clock = ClockStart
    /\ parsed = NotParsed
    /\ nows = {}
    /\ statics = {}
    /\ doc = <<>>
    /\ section = NoSection
    /\ fields = NoFields
    /\ experience_data = NoDetails
    /\ jobs = NoJobs

\* time passes
Tick ==
    /\ clock < ClockStart + MaxTicks
    /\ clock' = clock + 1
    /\ UNCHANGED <<scoreVars, parsed, nows, statics, parserVars>>

\* a call parse_date(s)
CallParseDate ==
    /\ \E s \in DateStrings :
          LET r == ParseDate(s, clock)
          IN  /\ parsed' = [arg |-> s, at |-> clock, res |-> r]
              /\ nows' = IF r.ok /\ s \in PresentStrings
                         THEN nows \cup {[at |-> clock, ts |-> r.ts]}
                         ELSE nows
              /\ statics' = IF r.ok /\ s \notin PresentStrings
                            THEN statics \cup {r.ts}
                            ELSE statics
    /\ UNCHANGED <<scoreVars, clock, parserVars>>

NextDate == Tick \/ CallParseDate

SpecDate == InitDate /\ [][NextDate]_vars

\* C9 as stated: every timestamp returned for "Present"/"Now" is not earlier
\* than any timestamp returned in the same run for a dated string, whatever
\* date, past or future, the string denotes.
C9_PresentNotBeforeAnyDate ==
    \A n \in nows : \A d \in statics : n.ts >= d

\* C9 (amended): "Present" and "Now", in any letter case, parse to the moment
\* of the call, so the timestamp returned is not earlier than that of any
\* dated string of the run that denotes a date not after the moment of the
\* call (a string dated after it parses to a later timestamp).
C9_PresentNotBeforePastDates ==
    /\ parsed.arg \in PresentStrings => parsed.res.ok /\ parsed.res.ts = parsed.at
    /\ \A n \in nows : \A d \in statics :
          /\ d <= n.at => n.ts >= d
          /\ d > n.at => n.ts < d

C9_Witness ==
    /\ parsed.arg = DsNowUpper
    /\ Midnight(2020, 5, 1) \in statics
    /\ Midnight(2026, 11, 7) \in statics
    /\ \E n \in nows : n.at = Midnight(2026, 11, 7)

----------------------------------------------------------------------------
(* The extractors applied to documents                                     *)

\* the longest document, in lexemes
MaxDocLen == 3

RangePresent == Lex("range", "Jan 2019 - Present")
RangeSept == Lex("range", "Sept. 2019 to 2020-05")

DocLexemes ==
    {Lex("kw", "Education"), Lex("kw", "Experience"), Lex("kw", "Skills"),
     Lex("kw", "Projects"), Lex("kw", "EXPERIENCE"), Lex("ws", " "),
     Lex("word", "Acme"), Lex("email", "a@b.io"), RangePresent, RangeSept}

Docs == UNION {[1..n -> DocLexemes] : n \in 0..MaxDocLen}

InitParser ==
    /\ scorer = "none"
    /\ weights = NoWeights
    /\ cv = NoRecord
    /\ jd = NoRecord
    /\ sims = NoSims
    /\ report = NoReport
    /\ shown = NotShown
    /\ missing = NotComputed
    /\ clock = ClockStart
    /\ parsed = NotParsed
    /\ nows = {}
    /\ statics = {}
    /\ doc \in Docs
    /\ section = NoSection
    /\ fields = NoFields
    /\ experience_data = NoDetails
    /\ jobs = NoJobs

\* a call extract_by_keywords(doc, keyword)
CallExtractByKeywords ==
    /\ ~ section.returned
    /\ ~ fields.returned
    /\ \E keyword \in Range(sections) :
          section' = [returned |-> TRUE, keyword |-> keyword,
                      value |-> ExtractByKeywords(doc, keyword)]
    /\ UNCHANGED <<scoreVars, dateVars, doc, fields, experience_data, jobs>>

\* a call extract_structured_fields(doc)
CallExtractStructuredFields ==
    /\ ~ section.returned
    /\ ~ fields.returned
    /\ fields' = ExtractStructuredFields(doc, clock)
    /\ UNCHANGED <<scoreVars, dateVars, doc, section, experience_data, jobs>>

NextParser == CallExtractByKeywords \/ CallExtractStructuredFields

SpecParser == InitParser /\ [][NextParser]_vars

IsKeyword(lex, keyword) ==
    lex.k = "kw" /\ LowerKeyword(lex.v) = LowerKeyword(keyword)

IsOtherKeyword(lex, keyword) ==
    lex.k = "kw" /\ LowerKeyword(lex.v) # LowerKeyword(keyword)

\* the position of the first occurrence of keyword in doc
FirstAt(keyword) ==
    CHOOSE i \in 1..Len(doc) :
        IsKeyword(doc[i], keyword) /\ \A h \in 1..(i - 1) : ~ IsKeyword(doc[h], keyword)

\* the position of the earliest occurrence of another keyword after position
\* i, or one past the end of doc
NextOtherAfter(i, keyword) ==
    IF \E j \in (i + 1)..Len(doc) : IsOtherKeyword(doc[j], keyword)
    THEN CHOOSE j \in (i + 1)..Len(doc) :
             /\ IsOtherKeyword(doc[j], keyword)
             /\ \A h \in (i + 1)..(j - 1) : ~ IsOtherKeyword(doc[h], keyword)
    ELSE Len(doc) + 1

\* C6: for a keyword that occurs in the document, extract_by_keywords returns
\* the text from just after its first occurrence up to the earliest later
\* occurrence of any other section keyword (or the end), so the result holds
\* no occurrence of another section keyword.
C6_SectionEndsAtNearestKeyword ==
    (section.returned /\ \E i \in 1..Len(doc) : IsKeyword(doc[i], section.keyword)) =>
        LET i == FirstAt(section.keyword)
        IN  /\ section.value =
                   StripLex(SubSeq(doc, i + 1, NextOtherAfter(i, section.keyword) - 1))
            /\ \A h \in 1..Len(section.value) :
                   ~ IsOtherKeyword(section.value[h], section.keyword)

RecordKeys ==
    {"contact", "education", "experience", "skills", "projects",
     "experience_details"}

\* C8: extract_structured_fields returns, without raising, a record with the
\* keys contact, education, experience, skills, projects and
\* experience_details; for a text with no section keyword and no contact
\* pattern the contact mapping, the four section strings and the entry
\* sequence are all empty.
C8_StructuredFieldsNeverRaise ==
    fields.returned =>
        /\ ~ fields.raised
        /\ DOMAIN fields.value = RecordKeys
        /\ (\A i \in 1..Len(doc) : doc[i].k \notin ContactKeys \cup {"kw"}) =>
               /\ DOMAIN fields.value["contact"] = {}
               /\ fields.value["education"] = <<>>
               /\ fields.value["experience"] = <<>>
               /\ fields.value["skills"] = <<>>
               /\ fields.value["projects"] = <<>>
               /\ fields.value["experience_details"] = <<>>

\* a document with date ranges but no section keyword and no contact item
C8_Witness ==
    /\ fields.returned
    /\ doc = <<RangeSept, Lex("ws", " "), RangePresent>>
    /\ fields.value["experience"] = <<>>
    /\ fields.value["experience_details"] = <<>>

----------------------------------------------------------------------------
(* plot_experience_timeline (run.py): the jobs it draws                    *)

\* title.split(): the words of a title, left to right
RECURSIVE SplitWords(_, _, _)
SplitWords(t, cur, acc) ==
    IF t = <<>> THEN (IF cur = <<>> THEN acc ELSE Append(acc, cur))
    ELSE IF Head(t).k = "ws"
         THEN SplitWords(Tail(t), <<>>,
                         IF cur = <<>> THEN acc ELSE Append(acc, cur))
         ELSE SplitWords(Tail(t), Append(cur, Head(t)), acc)

\* ' '.join(words)
RECURSIVE JoinWords(_)
JoinWords(words) ==
    IF words = <<>> THEN <<>>
    ELSE IF Len(words) = 1 THEN Head(words)
    ELSE Head(words) \o <<Lex("ws", " ")>> \o JoinWords(Tail(words))

\* the title of an entry, cut to six words
JobTitle(entry) ==
    LET title == entry.role \o
                 (IF entry.company # <<>>
                  THEN <<Lex("ws", " "), Lex("word", "at"), Lex("ws", " ")>>
                       \o entry.company
                  ELSE <<>>)
        words == SplitWords(title, <<>>, <<>>)
    IN  IF Len(words) > 6
        THEN JoinWords(SubSeq(words, 1, 6)) \o <<Lex("ws", " "), Lex("word", "...")>>
        ELSE title

\* the tuple (title, s, t) of an entry: "swap if reversed"
Job(entry) ==
    LET s == entry.start_date
        t == entry.end_date
    IN  [title |-> JobTitle(entry),
         start |-> IF t < s THEN t ELSE s,
         end |-> IF t < s THEN s ELSE t]

\* jobs.sort(key=lambda x: x[1]): by start, equal starts keep their order
RECURSIVE SortByStart(_)
SortByStart(js) ==
    IF js = <<>> THEN <<>>
    ELSE LET rest == SortByStart(SubSeq(js, 1, Len(js) - 1))
             x == js[Len(js)]
             n == Cardinality({i \in 1..Len(rest) : rest[i].start <= x.start})
         IN  SubSeq(rest, 1, n) \o <<x>> \o SubSeq(rest, n + 1, Len(rest))

\* the jobs of plot_experience_timeline(data); no figure for no entries
PlotJobs(data) ==
    IF data = <<>> THEN [returned |-> TRUE, figure |-> FALSE, value |-> <<>>]
    ELSE [returned |-> TRUE, figure |-> TRUE,
          value |-> SortByStart([i \in 1..Len(data) |-> Job(data[i])])]

----------------------------------------------------------------------------
(* extract_experience applied to experience texts, and the timeline drawn  *)
(* from its entries                                                        *)

\* the longest experience text that is enumerated, in lexemes
MaxTextLen == 4

RangeReversed == Lex("range", "2021/03 - 2020/01")
RangeBadEnd == Lex("range", "2020/01 - 31/02/2021")

ExperienceLexemes ==
    {RangePresent, RangeSept, RangeReversed, RangeBadEnd, Lex("ws", " "),
     Lex("ws", "\n"), Lex("word", "Dev")}

\* "Jan 2019 - Present Software Engineer at Acme Corp"
TextAcme ==
    <<RangePresent, Lex("ws", " "), Lex("word", "Software"), Lex("ws", " "),
      Lex("word", "Engineer"), Lex("ws", " "), Lex("word", "at"),
      Lex("ws", " "), Lex("word", "Acme"), Lex("ws", " "), Lex("word", "Corp")>>

\* "freelance, Senior Software Engineer At Acme Corp Ltd During 2021/03 -
\* 2020/01", with the range at the end of the line
TextNoise ==
    <<Lex("word", "freelance"), Lex("punct", ","), Lex("ws", " "),
      Lex("word", "Senior"), Lex("ws", " "), Lex("word", "Software"),
      Lex("ws", " "), Lex("word", "Engineer"), Lex("ws", " "),
      Lex("word", "At"), Lex("ws", " "), Lex("word", "Acme"), Lex("ws", " "),
      Lex("word", "Corp"), Lex("ws", " "), Lex("word", "Ltd"), Lex("ws", " "),
      Lex("word", "During"), Lex("ws", " "), RangeReversed>>

\* the same title without the noise word: seven words
TextLong ==
    <<RangeReversed, Lex("ws", " "),
      Lex("word", "Senior"), Lex("ws", " "), Lex("word", "Software"),
      Lex("ws", " "), Lex("word", "Engineer"), Lex("ws", " "),
      Lex("word", "at"), Lex("ws", " "), Lex("word", "Acme"), Lex("ws", " "),
      Lex("word", "Corp"), Lex("ws", " "), Lex("word", "Ltd")>>

ExperienceTexts ==
    UNION {[1..n -> ExperienceLexemes] : n \in 0..MaxTextLen}
    \cup {TextAcme, TextNoise, TextLong}

InitExperience ==
    /\ scorer = "none"
    /\ weights = NoWeights
    /\ cv = NoRecord
    /\ jd = NoRecord
    /\ sims = NoSims
    /\ report = NoReport
    /\ shown = NotShown
    /\ missing = NotComputed
    /\ clock = ClockStart
    /\ parsed = NotParsed
    /\ nows = {}
    /\ statics = {}
    /\ doc \in ExperienceTexts
    /\ section = NoSection
    /\ fields = NoFields
    /\ experience_data = NoDetails
    /\ jobs = NoJobs

\* a call extract_experience(doc)
CallExtractExperience ==
    /\ ~ experience_data.returned
    /\ LET r == ExtractExperience(doc, clock)
       IN  experience_data' =
               [returned |-> TRUE, raised |-> r.raised, entries |-> r.entries]
    /\ UNCHANGED <<scoreVars, dateVars, doc, section, fields, jobs>>

\* the call plot_experience_timeline(experience_data) of run.py
CallPlotExperienceTimeline ==
    /\ experience_data.returned
    /\ ~ experience_data.raised
    /\ ~ jobs.returned
    /\ jobs' = PlotJobs(experience_data.entries)
    /\ UNCHANGED <<scoreVars, dateVars, doc, section, fields, experience_data>>

NextExperience == CallExtractExperience \/ CallPlotExperienceTimeline

SpecExperience == InitExperience /\ [][NextExperience]_vars

\* the timestamps of the two halves of the match at position i of doc
StartOf(i) == ParseDate(RangeStart(doc[i].v), clock)

EndOf(i) == ParseDate(RangeEnd(doc[i].v), clock)

\* the positions of the matches of doc whose two halves both parse; doc is
\* read line after line, so they are in the order of line and position
GoodPositions ==
    {i \in 1..Len(doc) : doc[i].k = "range" /\ StartOf(i).ok /\ EndOf(i).ok}

NthGood(n) ==
    CHOOSE i \in GoodPositions : Cardinality({h \in GoodPositions : h < i}) = n - 1

\* C11: extract_experience returns, without raising, exactly one entry per
\* date-range match whose two halves both parse, in the order of line and of
\* position in the line, never sorted by date; a match with a half that does
\* not parse is skipped alone, and a line without a match adds nothing.
C11_OneEntryPerParsedMatchInOrder ==
    experience_data.returned =>
        /\ ~ experience_data.raised
        /\ Len(experience_data.entries) = Cardinality(GoodPositions)
        /\ \A n \in 1..Len(experience_data.entries) :
               /\ experience_data.entries[n].start_date = StartOf(NthGood(n)).ts
               /\ experience_data.entries[n].end_date = EndOf(NthGood(n)).ts

\* a match that does not parse, then one that does on the same line, then one
\* with an earlier start on the next line
C11_Witness ==
    /\ experience_data.returned
    /\ doc = <<RangeSept, RangeReversed, Lex("ws", "\n"), RangePresent>>
    /\ Len(experience_data.entries) = 2
    /\ experience_data.entries[1].start_date > experience_data.entries[2].start_date

\* C12: the duration of an entry is the whole days of end_date - start_date
\* over 365, from the dates in their parsed order; start_date and end_date
\* are stored unswapped, so the duration is negative when the end precedes
\* the start by a day or more; reversed dates are swapped only in the jobs of
\* the timeline.
C12_DurationFromUnswappedDates ==
    /\ experience_data.returned =>
          \A n \in 1..Len(experience_data.entries) :
              LET e == experience_data.entries[n]
                  s == StartOf(NthGood(n)).ts
                  t == EndOf(NthGood(n)).ts
              IN  /\ e.start_date = s
                  /\ e.end_date = t
                  /\ e.duration.per = 365
                  /\ e.duration.days * TicksPerDay <= t - s
                  /\ t - s < (e.duration.days + 1) * TicksPerDay
                  /\ t + TicksPerDay <= s => e.duration.days < 0
    /\ jobs.returned =>
          /\ Len(jobs.value) = Len(experience_data.entries)
          /\ \A j \in 1..Len(jobs.value) : jobs.value[j].start <= jobs.value[j].end
          /\ \A n \in 1..Len(experience_data.entries) :
                 LET e == experience_data.entries[n]
                 IN  \E j \in 1..Len(jobs.value) :
                         /\ jobs.value[j].start \in {e.start_date, e.end_date}
                         /\ jobs.value[j].end \in {e.start_date, e.end_date}
                         /\ jobs.value[j].start # jobs.value[j].end
                                \/ e.start_date = e.end_date

\* an entry whose end precedes its start, and the job drawn for it
C12_Witness ==
    /\ jobs.returned
    /\ doc = TextLong
    /\ experience_data.entries[1].start_date = Midnight(2021, 3, 1)
    /\ experience_data.entries[1].end_date = Midnight(2020, 1, 1)
    /\ experience_data.entries[1].duration.days = -425
    /\ jobs.value[1].start = Midnight(2020, 1, 1)
    /\ jobs.value[1].end = Midnight(2021, 3, 1)

====
